---- MODULE Spec2Model ----
(***************************************************************************)
(* Model of the ESP32 air quality monitor (src/ESP32/main.py).             *)
(*                                                                         *)
(* Numbers.  The program computes with floats; the model computes the same *)
(* quantities exactly, in fixed point:                                     *)
(*   - a PM concentration is an integer number of 1/1000 ug/m3 where it is *)
(*     the argument of aqi, and the sensor fields pm10_env / pm25_env are  *)
(*     integer numbers of 1/10 ug/m3;                                      *)
(*   - the slopes of aqi are integer numbers of 1/10000;                   *)
(*   - voltages are handled through the raw ADC count and millivolts.      *)
(* round() is round-to-nearest, ties to even.  On the grids used here no   *)
(* product is a tie, and every product is further from a tie than the      *)
(* float error, so the exact result is the float result.                   *)
(*                                                                         *)
(* Text.  A text is a tuple of one-character strings; the OLED is a grid   *)
(* of 8 rows by 16 character cells (128x64 pixels, 8x8 font).              *)
(*                                                                         *)
(* None is modelled by the number -1, which no modelled quantity takes.    *)
(*                                                                         *)
(* Tasks.  The tasks are cooperative (uasyncio): the code of a task        *)
(* between two awaits is one action.  Followed: the particulate callback, *)
(* the buzzer task, the LED task, the battery monitor, the DHT task, the   *)
(* CO2 task and the heartbeat loop of main.  The drivers (pms5003, scd30,  *)
(* dht, ssd1306) and uasyncio are not part of the sources: what a driver   *)
(* returns is an input of the step that calls it, and the exception        *)
(* handler runs in the step in which a task raises.                        *)
(***************************************************************************)
EXTENDS Integers, Sequences, FiniteSets, TLC

None == 0 - 1

(***************************************************************************)
(* Configuration (main.py lines 18-22).                                    *)
(***************************************************************************)
\* smoke_corr_factor = 0.48, in 1/100
smoke_corr_factor == 48
vbat_adccounts_per_V == 470
\* vbat_max = 4.05 V and vbat_min = 3.0 V, in millivolts
vbat_max == 4050
vbat_min == 3000
show_adc_counts == FALSE

\* The SSD1306 is 128x64 pixels (line 122); with the 8x8 font: 16 x 8 cells.
NCols == 16
NRows == 8

(***************************************************************************)
(* Arithmetic helpers.                                                     *)
(***************************************************************************)
\* round(num/den) for den > 0: nearest integer, ties to even (MicroPython's
\* round uses nearbyint).  \div is floor division, % is non-negative.
Round(num, den) ==
  LET q == num \div den
      r == num % den
  IN  IF 2 * r < den THEN q
      ELSE IF 2 * r > den THEN q + 1
      ELSE IF q % 2 = 0 THEN q ELSE q + 1

Min(a, b) == IF a < b THEN a ELSE b
Max(a, b) == IF a > b THEN a ELSE b
Abs(a) == IF a < 0 THEN 0 - a ELSE a

(***************************************************************************)
(* aqi (lines 54-69).  c is the concentration in 1/1000 ug/m3; the result  *)
(* is the AQI, 999 being the saturation sentinel.  Each band is            *)
(* round(slope * (c - offset) + base) with slope in 1/10000.               *)
(***************************************************************************)
\* aqi with the base of the last band one too high
aqi_band6_over_by_one(c) ==
  IF c <= 12000 THEN Round(41667 * c, 10000000)
  ELSE IF c <= 35400 THEN Round(21030 * (c - 12100), 10000000) + 51
  ELSE IF c <= 55400 THEN Round(24623 * (c - 35500), 10000000) + 101
  ELSE IF c <= 150400 THEN Round(5163 * (c - 55500), 10000000) + 151
  ELSE IF c <= 250400 THEN Round(9910 * (c - 150500), 10000000) + 201
  ELSE IF c <= 500400 THEN Round(7963 * (c - 250500), 10000000) + 302
  ELSE 999

aqi(c) ==
  IF c <= 12000 THEN Round(41667 * c, 10000000)
  ELSE IF c <= 35400 THEN Round(21030 * (c - 12100), 10000000) + 51
  ELSE IF c <= 55400 THEN Round(24623 * (c - 35500), 10000000) + 101
  ELSE IF c <= 150400 THEN Round(5163 * (c - 55500), 10000000) + 151
  ELSE IF c <= 250400 THEN Round(9910 * (c - 150500), 10000000) + 201
  ELSE IF c <= 500400 THEN Round(7963 * (c - 250500), 10000000) + 301
  ELSE 999

(***************************************************************************)
(* aqilevel (lines 72-86).  The argument is an integer-valued AQI, so      *)
(* int(aqi) is the value itself.                                           *)
(***************************************************************************)
\* aqilevel with the first comparison strict
aqilevel_yellow_from_50(a) ==
  IF a < 50 THEN "g"
  ELSE IF a <= 100 THEN "y"
  ELSE IF a <= 150 THEN "o"
  ELSE IF a <= 200 THEN "r"
  ELSE IF a <= 300 THEN "p"
  ELSE "m"

aqilevel(a) ==
  IF a <= 50 THEN "g"
  ELSE IF a <= 100 THEN "y"
  ELSE IF a <= 150 THEN "o"
  ELSE IF a <= 200 THEN "r"
  ELSE IF a <= 300 THEN "p"
  ELSE "m"

(***************************************************************************)
(* Text formatting: what the % operator does with the formats of           *)
(* display_config.                                                         *)
(***************************************************************************)
DigitChars == <<"0", "1", "2", "3", "4", "5", "6", "7", "8", "9">>

RECURSIVE DecStr(_)
\* the decimal digits of a natural number
DecStr(n) ==
  IF n < 10 THEN <<DigitChars[n + 1]>>
  ELSE Append(DecStr(n \div 10), DigitChars[(n % 10) + 1])

Spaces(k) == [i \in 1..k |-> " "]

\* a minimum field width: pad on the left (%3i) or on the right (%-6s);
\* a text longer than the width is not cut
PadLeft(s, w) == IF Len(s) >= w THEN s ELSE Spaces(w - Len(s)) \o s
PadRight(s, w) == IF Len(s) >= w THEN s ELSE s \o Spaces(w - Len(s))

\* %wi and %w.0f of a non-negative integer-valued number
FmtInt(n, w) == PadLeft(DecStr(n), w)

\* %w.1f of a number given in tenths (it may be negative)
Fmt1f(x10, w) ==
  LET a == Abs(x10)
      body == DecStr(a \div 10) \o <<".", DigitChars[(a % 10) + 1]>>
  IN  PadLeft(IF x10 < 0 THEN <<"-">> \o body ELSE body, w)

(***************************************************************************)
(* display_config (lines 25-40): field -> (format, x_pos, y_pos).          *)
(* FieldX and FieldY are the positions; Format is the format applied to    *)
(* the values (a tuple), as "fmt[0] % values" of Display.show.             *)
(*   dht_temp, dewpoint : <<temperature in 1/10 C>>                        *)
(*   dht_humidity, aqi, aqismoke, co2, adc : <<integer value>>             *)
(*   pms : <<pm10, pm25>> in 1/10 ug/m3 (%i truncates to an integer)       *)
(*   vbat : <<voltage in 1/10 V, percentage>>                              *)
(*   msg : <<text>>                                                        *)
(***************************************************************************)
Fields ==
  {"title", "dht_temp", "dht_humidity", "dewpoint", "aqi", "aqismoke",
   "pms_25", "pms", "co2", "vbat", "msg", "adc"}

FieldX(what) ==
  CASE what \in {"dht_temp", "dht_humidity", "dewpoint"} -> 0 - 16
    [] what = "msg" -> 10
    [] OTHER -> 0

FieldY(what) ==
  CASE what = "title" -> 0
    [] what \in {"dht_temp", "aqi"} -> 2
    [] what \in {"dht_humidity", "aqismoke"} -> 3
    [] what \in {"dewpoint", "pms"} -> 4
    [] what = "co2" -> 5
    [] what \in {"pms_25", "adc"} -> 6
    [] OTHER -> 7

TitleText ==
  <<"A", "i", "r", " ", "M", "o", "n", "i", "t", "o", "r", " ", "v", "0", ".", "3">>

Format(what, values) ==
  CASE what = "title" -> TitleText
    [] what = "dht_temp" -> Fmt1f(values[1], 4) \o <<"C">>
    [] what = "dht_humidity" -> FmtInt(values[1], 3) \o <<"%">>
    [] what = "dewpoint" -> <<"d", "e", "w", " ">> \o Fmt1f(values[1], 4) \o <<"C">>
    [] what = "aqi" -> <<"A", "Q", "I", " ", " ", " ">> \o FmtInt(values[1], 3)
    [] what = "aqismoke" -> <<"S", "m", "o", "k", "e", " ">> \o FmtInt(values[1], 3)
    [] what = "pms_25" ->
         FmtInt(values[1] \div 10, 3) \o <<" ", "u", "g", "/", "m", "3">>
    [] what = "pms" ->
         FmtInt(values[1] \div 10, 3) \o <<" ", "/", " ">>
           \o FmtInt(values[2] \div 10, 3) \o <<" ", "u", "g", "/", "m", "3">>
    [] what = "co2" ->
         <<"C", "O", "2", " ">> \o FmtInt(values[1], 5) \o <<" ", "p", "p", "m">>
    [] what = "vbat" ->
         Fmt1f(values[1], 3) \o <<"V", " ">> \o FmtInt(values[2], 3) \o <<"%">>
    [] what = "msg" -> PadRight(values[1], 6)
    [] what = "adc" -> <<"a", "d", "c", " ">> \o DecStr(values[1])

(***************************************************************************)
(* Display (lines 114-141).  An oled value is the content of the screen,   *)
(* a tuple of rows, each a tuple of cells: Cell(o, x, y) is the character  *)
(* shown in column x (0..15) of row y (0..7), " " for blank.  Pixels       *)
(* outside the screen are clipped by the frame buffer.                     *)
(***************************************************************************)
Rows == 0..(NRows - 1)
Cols == 0..(NCols - 1)

\* after oled.fill(0) (line 123)
BlankScreen == [y \in 1..NRows |-> [x \in 1..NCols |-> " "]]

Cell(o, x, y) == o[y + 1][x + 1]

\* the column the text starts at (lines 129-130)
\* (a right alignment that counts the declared column from the right edge)
EffCol_from_right_edge(text, posX) ==
  IF posX < 0 THEN NCols + posX - Len(text) ELSE posX

EffCol(text, posX) ==
  IF posX < 0 THEN (0 - posX) - Len(text) ELSE posX

\* oled.fill_rect(x*8, y*8, n*8, 8, 0): n cells of row y from column x
FillRect(o, x, y, n) ==
  [o EXCEPT ![y + 1] =
     [c \in 1..NCols |-> IF c - 1 >= x /\ c - 1 < x + n THEN " " ELSE @[c]]]

\* oled.text draws the glyphs' pixels over what the cells show: a glyph on
\* a blank cell shows the glyph, a glyph over a different glyph is neither
Over(cell, ch) ==
  IF cell = " " THEN ch
  ELSE IF ch = " " \/ ch = cell THEN cell
  ELSE "#"

DrawText(o, text, x, y) ==
  [o EXCEPT ![y + 1] =
     [c \in 1..NCols |->
        IF c - 1 >= x /\ c - 1 < x + Len(text)
        THEN Over(@[c], text[c - x])
        ELSE @[c]]]

\* Display.write (lines 125-133)
Write(o, text, posX, posY) ==
  LET x == EffCol(text, posX)
  IN  DrawText(FillRect(o, x, posY, Len(text)), text, x, posY)

\* Display.show (lines 135-141)
Show(o, what, values) == Write(o, Format(what, values), FieldX(what), FieldY(what))

\* the text shown in n cells of row y from column x
Shown(o, x, y, n) == [i \in 1..n |-> Cell(o, x + i - 1, y)]

(***************************************************************************)
(* State.                                                                  *)
(***************************************************************************)
VARIABLES
  \* calls of the pure functions aqi and aqilevel: argument and results
  conc, idx, lvl,
  \* an Average object (lines 89-111), the result of its last fill, and the
  \* values filled so far (history, not program state)
  avg, fill_ret, filled,
  \* Display: the screen content
  oled,
  \* history of the writes (not program state): for each row written, the
  \* text and the declared column of the last write, and the declared
  \* columns written so far
  written,
  \* the RGBLed object (lines 144-186): color, duty (PWM duties), on, blinking
  rgb_led,
  \* the Buzzer object (lines 189-219): freq, duration, pause,
  \* remaining_beeps, and its PWM output (duty, pwm_freq); where _run is
  buzzer, buz_pc,
  \* history of the beep task, followed in SpecBeep (not program state):
  \*   trig_at     where the beep task was suspended when the last update
  \*               called buzzer.alarm() ("none": no update has yet);
  \*   beeps_begun the number of on-phases begun since then (since power on
  \*               if no update has called buzzer.alarm())
  trig_at, beeps_begun,
  \* PMSSensor (lines 254-283): the driver's fields and the object's
  pm10_env, pm25_env, pms_aqi, pms_aqismoke, pms_aqilevel, alarm_on,
  \* history of the particulate updates (not program state):
  \*   upd_tick  flips at every update;
  \*   armed_now whether the last update called buzzer.alarm();
  \*   arm_phase "never": no update called buzzer.alarm() yet; "armed": one
  \*             did and no update since had a smoke AQI <= 50; "cleared":
  \*             one had; "rearmed": an update called buzzer.alarm() in "armed";
  \*   seq_pos   the number of updates so far if their smoke AQIs are the
  \*             first ones of ExampleSeq, None otherwise
  \*   dark_before whether the last update found the LED blinking and in
  \*             its off phase
  upd_tick, armed_now, arm_phase, seq_pos, dark_before,
  \* BatteryMonitor (lines 305-331): last raw count and percentage, flag
  bat_raw, vbatrel, lowbat,
  \* main (lines 368-385): heartbeat counter and where the loop is suspended
  n_heartbeat, hb_pc,
  \* DHTSensor (lines 229-232): temperature in 1/10 C, humidity in 1/10 %
  dht_temperature, dht_humidity, n_measurements,
  \* CO2Sensor (lines 294-302): the last reading, where the task is
  \* suspended, and the last value get_status_ready() returned
  co2, co2_pc, scd_status,
  \* the event loop: running until the exception handler (lines 336-339)
  \* exits; fault is the task that raised ("none": no task has)
  running, fault,
  \* history of the accesses, followed in SpecTasks (not program state): the
  \* pairs <<task, peripheral>> such that the task has driven the peripheral
  access

aqiVars == <<conc, idx, lvl>>
avgVars == <<avg, fill_ret, filled>>
dispVars == <<oled, written>>
beepVars == <<trig_at, beeps_begun>>
buzVars == <<buzzer, buz_pc, beepVars>>
pmsVars ==
  <<pm10_env, pm25_env, pms_aqi, pms_aqismoke, pms_aqilevel, alarm_on,
    upd_tick, armed_now, arm_phase, seq_pos, dark_before>>
batVars == <<bat_raw, vbatrel, lowbat>>
mainVars == <<n_heartbeat, hb_pc>>
dhtVars == <<dht_temperature, dht_humidity, n_measurements>>
co2Vars == <<co2, co2_pc, scd_status>>
runVars == <<running, fault>>
sensorVars == <<dhtVars, co2Vars, runVars, access>>

vars ==
  <<aqiVars, avgVars, dispVars, rgb_led, buzVars, pmsVars, batVars, mainVars,
    sensorVars>>

(***************************************************************************)
(* Bounds of the model.                                                    *)
(***************************************************************************)
\* largest window of an Average, number of fills followed, largest value
MaxSamples == 3
MaxFills == 6
MaxValue == 3
\* largest concentration aqi is called with, in 1/10 ug/m3
MaxConc == 6000
\* largest AQI aqilevel is called with
MaxAqi == 1000

(***************************************************************************)
(* Average (lines 89-111).  The sum of the model is an integer (the values *)
(* filled are integers); an average is the quotient num/den, kept as the   *)
(* pair, and den = 0 stands for None (no average yet).                     *)
(***************************************************************************)
NoAverage == [num |-> 0, den |-> 0]

\* Average.__init__ (lines 92-96)
Average_init(n) ==
  [n_samples |-> n, sum |-> 0, n_accumulated |-> 0, last_average |-> NoAverage]

\* fill without the reset of the count
Average_fill_keep_count(a, x) ==
  LET s == a.sum + x
      n == a.n_accumulated + 1
  IN  IF n >= a.n_samples
      THEN <<[a EXCEPT !.last_average = [num |-> s, den |-> n], !.sum = 0,
                       !.n_accumulated = n], TRUE>>
      ELSE <<[a EXCEPT !.sum = s, !.n_accumulated = n], FALSE>>

\* fill without the reset of the sum
Average_fill_keep_sum(a, x) ==
  LET s == a.sum + x
      n == a.n_accumulated + 1
  IN  IF n = a.n_samples
      THEN <<[a EXCEPT !.last_average = [num |-> s, den |-> n],
                       !.n_accumulated = 0], TRUE>>
      ELSE <<[a EXCEPT !.sum = s, !.n_accumulated = n], FALSE>>

\* Average.fill (lines 98-108): <<the object after the call, the result>>
Average_fill(a, x) ==
  LET s == a.sum + x
      n == a.n_accumulated + 1
  IN  IF n = a.n_samples
      THEN <<[a EXCEPT !.last_average = [num |-> s, den |-> n], !.sum = 0,
                       !.n_accumulated = 0], TRUE>>
      ELSE <<[a EXCEPT !.sum = s, !.n_accumulated = n], FALSE>>

\* Average.average (lines 110-111)
Average_average(a) == a.last_average

\* the window of the filter of the CO2 sensor (line 291)
co2_n_samples == 5

\* CO2Sensor.avg after construction; filled is the history of the fills
InitAvg ==
  avg = Average_init(co2_n_samples) /\ fill_ret = FALSE /\ filled = <<>>

\* a filter of any window from 1 to MaxSamples
InitAvgAny ==
  /\ \E n \in 1..MaxSamples : avg = Average_init(n)
  /\ fill_ret = FALSE
  /\ filled = <<>>

\* one call avg.fill(x)
Fill(x) ==
  /\ Len(filled) < MaxFills
  /\ avg' = Average_fill(avg, x)[1]
  /\ fill_ret' = Average_fill(avg, x)[2]
  /\ filled' = Append(filled, x)

(***************************************************************************)
(* Calls of aqi and aqilevel on the 0.1 ug/m3 grid.                        *)
(***************************************************************************)
InitAqi == conc = None /\ idx = None /\ lvl = "-"

\* aqilevel(aqi(c / 10)) for a concentration of c tenths of ug/m3, once
AqiCall(c) ==
  /\ lvl = "-"
  /\ conc' = c
  /\ idx' = aqi(100 * c)
  /\ lvl' = aqilevel(aqi(100 * c))

\* aqilevel(a) for an integer AQI, once
LevelCall(a) ==
  /\ lvl = "-"
  /\ conc' = None
  /\ idx' = a
  /\ lvl' = aqilevel(a)

(***************************************************************************)
(* RGBLed (lines 42-51, 144-186).                                          *)
(***************************************************************************)
\* rgb_colors (lines 42-51): (red, green, blue, blink flag)
rgb_colors ==
  [c \in {"b", "g", "y", "o", "r", "p", "m"} |->
     CASE c = "b" -> <<0, 0, 0, FALSE>>
       [] c = "g" -> <<0, 100, 0, FALSE>>
       [] c = "y" -> <<100, 100, 0, FALSE>>
       [] c = "o" -> <<120, 20, 0, FALSE>>
       [] c = "r" -> <<150, 0, 0, FALSE>>
       [] c = "p" -> <<120, 0, 80, TRUE>>
       [] c = "m" -> <<50, 0, 20, TRUE>>]

\* set_channel (lines 156-164) with brightness 0.2 (line 146): the PWM duty
\* int((255 - value * 0.2) / 255 * 1023) for a common anode LED
Duty(value) ==
  LET v == Min(Max(value, 0), 255)
  IN  ((1275 - v) * 1023) \div 1275

\* set_rgb (lines 166-170)
RGBLed_set_rgb(led, r, g, b) ==
  [led EXCEPT !.duty = <<Duty(r), Duty(g), Duty(b)>>,
              !.on = (r > 0) \/ (b > 0) \/ (g > 0)]

\* (set_color without the call of set_rgb)
RGBLed_set_color_keep_output(led, color) ==
  [led EXCEPT !.color = color, !.blinking = rgb_colors[color][4]]

\* set_color (lines 172-176)
RGBLed_set_color(led, color) ==
  LET v == rgb_colors[color]
  IN  [RGBLed_set_rgb([led EXCEPT !.color = color], v[1], v[2], v[3])
         EXCEPT !.blinking = v[4]]

\* __init__ (lines 146-154)
RGBLed_init ==
  RGBLed_set_color(
    [color |-> "b", duty |-> <<0, 0, 0>>, on |-> FALSE, blinking |-> FALSE], "b")

InitLed == rgb_led = RGBLed_init

\* (_run without the test of the blink flag)
LedRun_always_blink ==
  rgb_led' =
    IF rgb_led.on
    THEN RGBLed_set_rgb(rgb_led, 0, 0, 0)
    ELSE LET v == rgb_colors[rgb_led.color]
         IN  RGBLed_set_rgb(rgb_led, v[1], v[2], v[3])

\* _run (lines 178-186): one wake-up after sleep_ms(blink_delay)
LedRun ==
  rgb_led' =
    IF rgb_led.blinking
    THEN IF rgb_led.on
         THEN RGBLed_set_rgb(rgb_led, 0, 0, 0)
         ELSE LET v == rgb_colors[rgb_led.color]
              IN  RGBLed_set_rgb(rgb_led, v[1], v[2], v[3])
    ELSE rgb_led

(***************************************************************************)
(* Buzzer (lines 189-219).                                                 *)
(***************************************************************************)
\* the defaults of alarm (line 202)
alarm_freq == 700
alarm_duration == 140
alarm_pause == 30
alarm_no_of_beeps == 60

\* alarm (lines 202-206)
Buzzer_alarm(b, freq, duration, pause, no_of_beeps) ==
  [b EXCEPT !.freq = freq, !.duration = duration, !.pause = pause,
            !.remaining_beeps = no_of_beeps]

\* __init__ (lines 192-200): one beep at power on
Buzzer_init ==
  Buzzer_alarm(
    [freq |-> None, duration |-> None, pause |-> None, remaining_beeps |-> 0,
     duty |-> 0, pwm_freq |-> None],
    alarm_freq, alarm_duration, alarm_pause, 1)

InitBuzzer ==
  /\ buzzer = Buzzer_init /\ buz_pc = "start"
  /\ trig_at = "none" /\ beeps_begun = 0

\* (_run without the decrement of line 216)
BuzzerRun_keep_count ==
  IF buz_pc = "on"
  THEN /\ buzzer' = [buzzer EXCEPT !.duty = 0]
       /\ buz_pc' = "pause"
  ELSE IF buzzer.remaining_beeps > 0
       THEN /\ buzzer' = [buzzer EXCEPT !.pwm_freq = buzzer.freq, !.duty = 512]
            /\ buz_pc' = "on"
       ELSE /\ buzzer' = buzzer
            /\ buz_pc' = "idle"

\* (_run without the duty(0) of line 215)
BuzzerRun_keep_sounding ==
  IF buz_pc = "on"
  THEN /\ buzzer' = [buzzer EXCEPT !.remaining_beeps = @ - 1]
       /\ buz_pc' = "pause"
  ELSE IF buzzer.remaining_beeps > 0
       THEN /\ buzzer' = [buzzer EXCEPT !.pwm_freq = buzzer.freq, !.duty = 512]
            /\ buz_pc' = "on"
       ELSE /\ buzzer' = buzzer
            /\ buz_pc' = "idle"

\* _run (lines 208-219), from one suspension to the next.  buz_pc is where
\* the task is suspended: "start" (created, not yet run), "on" (line 214),
\* "pause" (line 217) or "idle" (line 219).
BuzzerRun ==
  IF buz_pc = "on"
  THEN /\ buzzer' = [buzzer EXCEPT !.duty = 0,
                                   !.remaining_beeps = @ - 1]
       /\ buz_pc' = "pause"
  ELSE IF buzzer.remaining_beeps > 0
       THEN /\ buzzer' = [buzzer EXCEPT !.pwm_freq = buzzer.freq, !.duty = 512]
            /\ buz_pc' = "on"
       ELSE /\ buzzer' = buzzer
            /\ buz_pc' = "idle"

(***************************************************************************)
(* PMSSensor (lines 254-283).                                              *)
(***************************************************************************)
alarm_enable_threshold == 80
alarm_disable_threshold == 50

\* the condition of line 279
\* (the condition without the test of alarm_on)
AlarmEnable_whenever_high(aqismoke, on) == aqismoke >= alarm_enable_threshold

\* (the condition with the disable threshold: no dead band)
AlarmEnable_above_disable(aqismoke, on) ==
  aqismoke > alarm_disable_threshold /\ ~on

\* (the condition extended to the update that clears alarm_on)
AlarmEnable_on_clear(aqismoke, on) ==
  \/ aqismoke >= alarm_enable_threshold /\ ~on
  \/ aqismoke <= alarm_disable_threshold /\ on

AlarmEnable(aqismoke, on) == aqismoke >= alarm_enable_threshold /\ ~on

\* (the condition with a strict comparison)
AlarmDisable_below(aqismoke, on) == aqismoke < alarm_disable_threshold /\ on

\* the condition of line 282
AlarmDisable(aqismoke, on) == aqismoke <= alarm_disable_threshold /\ on

\* pm25_env * smoke_corr_factor (line 272), in 1/1000 ug/m3
SmokeConc(pm25) == pm25 * smoke_corr_factor

\* the smoke AQIs of the example of the hysteresis
ExampleSeq == <<70, 85, 60, 45, 65>>

InitPms ==
  /\ pm10_env = None /\ pm25_env = None
  /\ pms_aqi = None /\ pms_aqismoke = None /\ pms_aqilevel = "-"
  /\ alarm_on = FALSE
  /\ upd_tick = FALSE /\ armed_now = FALSE
  /\ arm_phase = "never" /\ seq_pos = 0 /\ dark_before = FALSE

\* show (lines 270-283): the callback of the driver for a new measurement
\* (pm10, pm25), in 1/10 ug/m3
PMSShow(pm10, pm25) ==
  LET a == aqi(100 * pm25)
      s == aqi(SmokeConc(pm25))
      l == aqilevel(s)
      enable == AlarmEnable(s, alarm_on)
      on1 == IF enable THEN TRUE ELSE alarm_on
      on2 == IF AlarmDisable(s, on1) THEN FALSE ELSE on1
  IN  /\ pm10_env' = pm10 /\ pm25_env' = pm25
      /\ pms_aqi' = a /\ pms_aqismoke' = s /\ pms_aqilevel' = l
      /\ oled' = Show(Show(Show(oled, "aqi", <<a>>), "aqismoke", <<s>>),
                      "pms", <<pm10, pm25>>)
      /\ rgb_led' = RGBLed_set_color(rgb_led, l)
      /\ buzzer' = IF enable
                   THEN Buzzer_alarm(buzzer, alarm_freq, alarm_duration,
                                     alarm_pause, alarm_no_of_beeps)
                   ELSE buzzer
      /\ alarm_on' = on2
      /\ upd_tick' = ~upd_tick
      /\ armed_now' = enable
      /\ arm_phase' = IF arm_phase = "rearmed" THEN "rearmed"
                      ELSE IF enable
                           THEN IF arm_phase = "armed" THEN "rearmed" ELSE "armed"
                           ELSE IF s <= 50 /\ arm_phase = "armed" THEN "cleared"
                                ELSE arm_phase
      /\ seq_pos' = IF seq_pos # None /\ seq_pos < Len(ExampleSeq)
                       /\ s = ExampleSeq[seq_pos + 1]
                    THEN seq_pos + 1
                    ELSE None
      /\ dark_before' = (rgb_led.blinking /\ ~rgb_led.on)
      /\ UNCHANGED <<written, buz_pc>>

(***************************************************************************)
(* BatteryMonitor (lines 305-331).                                         *)
(***************************************************************************)
\* round(100.*(vbat-vbat_min)/(vbat_max-vbat_min),0) with vbat =
\* raw/vbat_adccounts_per_V (lines 320-321); numerator and denominator are
\* both multiplied by 1000 * vbat_adccounts_per_V
VbatRelRaw(raw) ==
  Round(100 * (1000 * raw - vbat_min * vbat_adccounts_per_V),
        (vbat_max - vbat_min) * vbat_adccounts_per_V)

\* (the percentage without the clamp at 100)
VbatRel_no_upper_clamp(raw) == Max(VbatRelRaw(raw), 0)

\* the percentage, clamped (line 322)
VbatRel(raw) == Min(Max(VbatRelRaw(raw), 0), 100)

\* round(vbat,1) (line 323), in 1/10 V
Vbat10(raw) == Round(10 * raw, vbat_adccounts_per_V)

LowBatText == <<"L", "O", "W", "B", "A", "T">>

InitBat == bat_raw = None /\ vbatrel = None /\ lowbat = FALSE

\* _run (lines 315-331): one pass of the loop, from the ADC read to the sleep
BatteryRun(raw) ==
  LET rel == VbatRel(raw)
      o1 == IF show_adc_counts THEN Show(oled, "adc", <<raw>>) ELSE oled
      o2 == Show(o1, "vbat", <<Vbat10(raw), rel>>)
  IN  /\ bat_raw' = raw
      /\ vbatrel' = rel
      /\ IF rel < 20
         THEN /\ oled' = Show(o2, "msg", <<LowBatText>>)
              /\ lowbat' = TRUE
         ELSE IF lowbat
              THEN /\ lowbat' = FALSE
                   /\ oled' = Show(o2, "msg", <<<<" ">>>>)
              ELSE /\ lowbat' = lowbat
                   /\ oled' = o2
      /\ UNCHANGED written

(***************************************************************************)
(* main (lines 344-385).                                                   *)
(***************************************************************************)
\* the heartbeat counter is followed up to this value and stays there
MaxHeartbeat == 55

\* the screen when the loop starts (lines 352-354)
InitScreen ==
  Show(Show(BlankScreen, "title", <<>>), "msg", <<<<"P", "O", "W", "O", "N">>>>)

InitMain == n_heartbeat = 0 /\ hb_pc = "start"

\* the heartbeat loop (lines 373-385), from one suspension to the next.
\* hb_pc is where main is suspended: "start" (before the loop), "s1".."s4"
\* (the sleeps of lines 378, 380, 382, 384).
Heartbeat ==
  CASE hb_pc \in {"start", "s4"} ->
         LET n == IF hb_pc = "s4" THEN Min(n_heartbeat + 1, MaxHeartbeat)
                  ELSE n_heartbeat
             o == IF n = 53 THEN Show(oled, "msg", <<<<" ">>>>) ELSE oled
         IN  /\ n_heartbeat' = n
             /\ oled' = Write(o, <<"|">>, 15, 7)
             /\ hb_pc' = "s1"
    [] hb_pc = "s1" ->
         /\ oled' = Write(oled, <<"/">>, 15, 7)
         /\ hb_pc' = "s2"
         /\ UNCHANGED n_heartbeat
    [] hb_pc = "s2" ->
         /\ oled' = Write(oled, <<"-">>, 15, 7)
         /\ hb_pc' = "s3"
         /\ UNCHANGED n_heartbeat
    [] hb_pc = "s3" ->
         /\ oled' = Write(oled, <<"\\">>, 15, 7)
         /\ hb_pc' = "s4"
         /\ UNCHANGED n_heartbeat

(***************************************************************************)
(* The event loop and its exception handler (lines 334-341).               *)
(***************************************************************************)
InitRun == running = TRUE /\ fault = "none"

\* (a handler that reports the exception and returns)
handle_exception_report_only(task) == fault' = task /\ running' = running

\* handle_exception (lines 336-339) for an exception that ended a task:
\* print it, then sys.exit()
handle_exception(task) == fault' = task /\ running' = FALSE

(***************************************************************************)
(* DHTSensor (lines 222-246).  The dew point (lines 241-242) is stored and *)
(* never read or shown; the model keeps of it only that math.log raises    *)
(* for a humidity of 0.  On the range of the sensor (-40..80 C) neither    *)
(* divisor of lines 241-242 is zero.                                       *)
(***************************************************************************)
\* n_measurements is followed up to this value and stays there
MaxMeasurements == 2

InitDht == dht_temperature = 0 /\ dht_humidity = 0 /\ n_measurements = 0

\* _run (lines 235-246): one pass of the loop, from the wake-up to the next
\* sleep.  ok: sensor.measure() returns (it raises OSError otherwise);
\* t, h: the temperature and the humidity it has read.
DhtRun(ok, t, h) ==
  IF ~ok
  THEN /\ handle_exception("dht")
       /\ UNCHANGED <<dhtVars, oled>>
  ELSE IF h <= 0
       THEN /\ dht_temperature' = t /\ dht_humidity' = h
            /\ handle_exception("dht")
            /\ UNCHANGED <<n_measurements, oled>>
       ELSE /\ dht_temperature' = t /\ dht_humidity' = h
            /\ oled' = Show(Show(oled, "dht_temp", <<t>>),
                            "dht_humidity", <<Round(h, 10)>>)
            /\ n_measurements' = Min(n_measurements + 1, MaxMeasurements)
            /\ UNCHANGED runVars

(***************************************************************************)
(* CO2Sensor (lines 285-302).  The temperature and the humidity of the     *)
(* SCD30 are stored and never read; the model keeps the CO2 reading, a     *)
(* whole number of ppm.                                                    *)
(***************************************************************************)
\* number of readings followed
MaxReads == 10

InitCo2 == co2 = None /\ co2_pc = "start" /\ scd_status = None

\* (no wait for the status)
Ready_always(status) == TRUE

\* the test of line 297
Ready(status) == status = 1

\* '%5.0f' % avg.average()
Co2Mean(a) == Round(Average_average(a).num, Average_average(a).den)

\* _run (lines 294-302), from one suspension to the next.  co2_pc is where
\* the task is suspended: "start" (line 295), "poll" (line 298) or "sleep"
\* (line 302).  ok: the calls of the SCD30 driver return (they raise
\* otherwise); status: what get_status_ready() returns; v: the CO2 reading.
Co2Run(ok, status, v) ==
  /\ Len(filled) < MaxReads
  /\ IF ~ok
     THEN /\ handle_exception("co2")
          /\ UNCHANGED <<co2Vars, avgVars, oled>>
     ELSE IF ~Ready(status)
          THEN /\ scd_status' = status
               /\ co2_pc' = "poll"
               /\ UNCHANGED <<co2, avgVars, oled, runVars>>
          ELSE /\ scd_status' = status
               /\ co2' = v
               /\ avg' = Average_fill(avg, v)[1]
               /\ fill_ret' = Average_fill(avg, v)[2]
               /\ filled' = Append(filled, v)
               /\ oled' = IF Average_fill(avg, v)[2]
                          THEN Show(oled, "co2",
                                    <<Co2Mean(Average_fill(avg, v)[1])>>)
                          ELSE oled
               /\ co2_pc' = "sleep"
               /\ UNCHANGED runVars

(***************************************************************************)
(* The peripherals.                                                        *)
(***************************************************************************)
Peripherals == {"display", "i2c", "dht", "uart", "adc", "led", "buzzer"}

\* (an SCD30 on a bus of its own)
Drives_scd30_own_bus(what) ==
  CASE what = "write" -> {"display", "i2c"}
    [] what = "scd30" -> {"i2c1"}
    [] what = "dht22" -> {"dht"}
    [] what = "pms5003" -> {"uart"}
    [] what = "adc" -> {"adc"}
    [] what = "set_rgb" -> {"led"}
    [] what = "buzzer" -> {"buzzer"}

\* the peripherals a call drives: Display.write sends the frame buffer to
\* the OLED on the I2C bus (lines 118, 122, 133); the SCD30 is on the I2C
\* bus of the display (line 290); the DHT22 has its pin (line 227), the
\* PMS5003 its UART (line 266), the battery its ADC (line 310), the LED and
\* the buzzer their PWM outputs (lines 147-149, 193)
Drives(what) ==
  CASE what = "write" -> {"display", "i2c"}
    [] what = "scd30" -> {"i2c"}
    [] what = "dht22" -> {"dht"}
    [] what = "pms5003" -> {"uart"}
    [] what = "adc" -> {"adc"}
    [] what = "set_rgb" -> {"led"}
    [] what = "buzzer" -> {"buzzer"}

InitAccess == access = {}

\* the task has made the calls
Accessed(task, calls) ==
  access' = access \cup {<<task, p>> : p \in UNION {Drives(c) : c \in calls}}

\* the tasks that have driven the peripheral
Users(p) == {a[1] : a \in {b \in access : b[2] = p}}

(***************************************************************************)
(* Writes to the display, with their history.                              *)
(***************************************************************************)
NoWrite == [text |-> <<>>, posX |-> 0, cols |-> {}]

\* the last write of row y (text, posX) and the declared columns written in
\* row y so far (cols)
LastWrite(y) == IF y \in DOMAIN written THEN written[y] ELSE NoWrite

\* the screen after Display.__init__ (line 123), nothing written yet
InitDisplay ==
  /\ oled = BlankScreen
  /\ written = [y \in {} |-> NoWrite]

\* the screen when the tasks start
InitDisp ==
  /\ oled = InitScreen
  /\ written = [y \in {} |-> NoWrite]

\* one call display.write(text, posX, posY)
DisplayWrite(text, posX, posY) ==
  /\ oled' = Write(oled, text, posX, posY)
  /\ written' =
       [y \in DOMAIN written \cup {posY} |->
          IF y = posY
          THEN [text |-> text, posX |-> posX,
                cols |-> LastWrite(posY).cols \cup {posX}]
          ELSE written[y]]

\* one call display.show(what, *values)
DisplayShow(what, values) ==
  DisplayWrite(Format(what, values), FieldX(what), FieldY(what))

\* the texts and places of the writes followed
WriteTexts ==
  {<<"3", ".", "4", "%">>, <<"1", "2", ".", "5", "%">>, <<"7", "%">>}
WriteCols == {0 - 6, 0 - 16, 0}
WriteRows == {1}

\* the fields and values of the shows followed: temperatures of -10.5, -9.5
\* and 21.3 C, particulate readings, messages
ShowSamples ==
  {<<"dht_temp", <<0 - 105>>>>, <<"dht_temp", <<0 - 95>>>>,
   <<"dht_temp", <<213>>>>,
   <<"pms", <<10480, 10430>>>>, <<"pms", <<130, 80>>>>,
   <<"msg", <<LowBatText>>>>, <<"msg", <<<<" ">>>>>>}

(***************************************************************************)
(* Readings followed.                                                      *)
(***************************************************************************)
\* pm25_env in 1/10 ug/m3: smoke AQIs 45, 50, 51, 60, 65, 70, 79, 80, 85,
\* and one reading in each of the levels orange, red, purple, maroon and in
\* the saturation.  The driver (pms5003) is not part of the sources; its
\* fields are taken on a 0.1 ug/m3 grid, which holds the whole numbers.
PM25Samples ==
  {225, 250, 260, 340, 390, 440, 530, 540, 590, 800, 1160, 3140, 5220, 10430}

\* (pm10_env, pm25_env)
PMSamples == {<<p + 50, p>> : p \in PM25Samples}

\* raw ADC counts: 0 %, 8 %, 19 %, 20 %, 50 %, 100 %
BatSamples == {1300, 1450, 1504, 1509, 1657, 1950}

\* the raw counts of the ADC
MaxRaw == 4095

(***************************************************************************)
(* Specifications.  Each one follows the tasks that write the state its    *)
(* properties read; the state of the other tasks stays as constructed.     *)
(***************************************************************************)
InitAll ==
  /\ InitAqi /\ InitAvg /\ InitDisp /\ InitLed /\ InitBuzzer /\ InitPms
  /\ InitBat /\ InitMain /\ InitDht /\ InitCo2 /\ InitRun /\ InitAccess

\* --- the alert controller: particulate callback, buzzer task, LED task
ShowStep ==
  /\ \E r \in PMSamples : PMSShow(r[1], r[2])
  /\ UNCHANGED <<aqiVars, avgVars, beepVars, batVars, mainVars, sensorVars>>

BuzzerStep ==
  /\ BuzzerRun
  /\ UNCHANGED <<aqiVars, avgVars, dispVars, rgb_led, beepVars, pmsVars,
                 batVars, mainVars, sensorVars>>

LedStep ==
  /\ LedRun
  /\ UNCHANGED <<aqiVars, avgVars, dispVars, buzVars, pmsVars, batVars, mainVars, sensorVars>>

Init == InitAll

Next == ShowStep \/ BuzzerStep \/ LedStep

Spec == Init /\ [][Next]_vars

\* --- the beep task and the updates that arm it, with the history of the
\* beeps.  Smoke AQIs 45, 65 and 85: below, between and above the thresholds.
BeepSamples == {<<275, 225>>, <<440, 390>>, <<640, 590>>}

TriggerStep ==
  /\ \E r \in BeepSamples : PMSShow(r[1], r[2])
  /\ trig_at' = IF armed_now' THEN buz_pc ELSE trig_at
  /\ beeps_begun' = IF armed_now' THEN 0 ELSE beeps_begun
  /\ UNCHANGED <<aqiVars, avgVars, batVars, mainVars, sensorVars>>

BeepStep ==
  /\ BuzzerRun
  /\ beeps_begun' = IF buz_pc' = "on" THEN beeps_begun + 1 ELSE beeps_begun
  /\ UNCHANGED <<aqiVars, avgVars, dispVars, rgb_led, trig_at, pmsVars,
                 batVars, mainVars, sensorVars>>

NextBeep == TriggerStep \/ BeepStep

SpecBeep == Init /\ [][NextBeep]_vars

\* the scheduler resumes the beep task when its sleep is over
SpecBeepFair == Init /\ [][NextBeep]_vars /\ WF_vars(BeepStep)

\* --- the battery monitor and the heartbeat of main, which share row 7
BatteryStep ==
  /\ \E raw \in BatSamples : BatteryRun(raw)
  /\ UNCHANGED <<aqiVars, avgVars, rgb_led, buzVars, pmsVars, mainVars, sensorVars>>

HeartbeatStep ==
  /\ Heartbeat
  /\ UNCHANGED <<aqiVars, avgVars, written, rgb_led, buzVars, pmsVars,
                 batVars, sensorVars>>

NextBattery == BatteryStep \/ HeartbeatStep

SpecBattery == Init /\ [][NextBattery]_vars

\* --- the first pass of the battery monitor, over every raw count
BatteryAnyStep ==
  /\ bat_raw = None
  /\ \E raw \in 0..MaxRaw : BatteryRun(raw)
  /\ UNCHANGED <<aqiVars, avgVars, rgb_led, buzVars, pmsVars, mainVars, sensorVars>>

SpecBatPct == Init /\ [][BatteryAnyStep]_vars

\* --- an Average filter of any window
InitAvgSpec ==
  /\ InitAqi /\ InitAvgAny /\ InitDisp /\ InitLed /\ InitBuzzer /\ InitPms
  /\ InitBat /\ InitMain /\ InitDht /\ InitCo2 /\ InitRun /\ InitAccess

FillStep ==
  /\ \E x \in 1..MaxValue : Fill(x)
  /\ UNCHANGED <<aqiVars, dispVars, rgb_led, buzVars, pmsVars, batVars, mainVars, sensorVars>>

SpecAvg == InitAvgSpec /\ [][FillStep]_vars

\* --- aqi and aqilevel on the 0.1 ug/m3 grid
AqiStep ==
  /\ \E c \in 0..MaxConc : AqiCall(c)
  /\ UNCHANGED <<avgVars, dispVars, rgb_led, buzVars, pmsVars, batVars, mainVars, sensorVars>>

LevelStep ==
  /\ \E a \in 0..MaxAqi : LevelCall(a)
  /\ UNCHANGED <<avgVars, dispVars, rgb_led, buzVars, pmsVars, batVars, mainVars, sensorVars>>

NextAqi == AqiStep \/ LevelStep

SpecAqi == Init /\ [][NextAqi]_vars

\* --- writes to a display
InitDisplaySpec ==
  /\ InitAqi /\ InitAvg /\ InitDisplay /\ InitLed /\ InitBuzzer /\ InitPms
  /\ InitBat /\ InitMain /\ InitDht /\ InitCo2 /\ InitRun /\ InitAccess

WriteStep ==
  /\ \E t \in WriteTexts, x \in WriteCols, y \in WriteRows : DisplayWrite(t, x, y)
  /\ UNCHANGED <<aqiVars, avgVars, rgb_led, buzVars, pmsVars, batVars, mainVars, sensorVars>>

FieldStep ==
  /\ \E f \in ShowSamples : DisplayShow(f[1], f[2])
  /\ UNCHANGED <<aqiVars, avgVars, rgb_led, buzVars, pmsVars, batVars, mainVars, sensorVars>>

NextDisplay == WriteStep \/ FieldStep

SpecDisplay == InitDisplaySpec /\ [][NextDisplay]_vars

\* --- the CO2 task: every status and reading, faults of the driver
\* CO2 readings in ppm: the mean of four of the one and one of the other is
\* not a whole number
Co2Samples == {400, 1203}

Co2Step ==
  /\ running
  /\ \E ok \in BOOLEAN, status \in {0, 1}, v \in Co2Samples :
       Co2Run(ok, status, v)
  /\ UNCHANGED <<aqiVars, written, rgb_led, buzVars, pmsVars, batVars,
                 mainVars, dhtVars, access>>

SpecCo2 == Init /\ [][Co2Step]_vars

\* --- the DHT task and the CO2 task, with the faults of their sensors
\* (temperature, humidity) in 1/10: 21.3 C and 45.2 %, -10.5 C and 100 %,
\* and a humidity of 0
DhtSamples == {<<213, 452>>, <<0 - 105, 1000>>, <<187, 0>>}

DhtStep ==
  /\ running
  /\ \E ok \in BOOLEAN, r \in DhtSamples : DhtRun(ok, r[1], r[2])
  /\ UNCHANGED <<aqiVars, avgVars, written, rgb_led, buzVars, pmsVars,
                 batVars, mainVars, co2Vars, access>>

Co2PlainStep ==
  /\ running
  /\ \E ok \in BOOLEAN, status \in {0, 1} : Co2Run(ok, status, 400)
  /\ UNCHANGED <<aqiVars, written, rgb_led, buzVars, pmsVars, batVars,
                 mainVars, dhtVars, access>>

NextSensors == DhtStep \/ Co2PlainStep

SpecSensors == Init /\ [][NextSensors]_vars

\* --- every task, with one reading per sensor and no fault, and the
\* history of the accesses to the peripherals.  The particulate reading has
\* a smoke AQI of 45 (no alarm, a steady LED).
\* number of passes of the heartbeat loop followed
MaxLoops == 2

TasksHeartbeatStep ==
  /\ n_heartbeat < MaxLoops
  /\ Heartbeat
  /\ Accessed("main", {"write"})
  /\ UNCHANGED <<aqiVars, avgVars, written, rgb_led, buzVars, pmsVars,
                 batVars, dhtVars, co2Vars, runVars>>

TasksBatteryStep ==
  /\ BatteryRun(1657)
  /\ Accessed("battery", {"adc", "write"})
  /\ UNCHANGED <<aqiVars, avgVars, rgb_led, buzVars, pmsVars, mainVars,
                 dhtVars, co2Vars, runVars>>

TasksDhtStep ==
  /\ DhtRun(TRUE, 213, 452)
  /\ Accessed("dht", {"dht22", "write"})
  /\ UNCHANGED <<aqiVars, avgVars, written, rgb_led, buzVars, pmsVars,
                 batVars, mainVars, co2Vars>>

TasksCo2Step ==
  /\ \E status \in {0, 1} : Co2Run(TRUE, status, 400)
  /\ Accessed("co2", IF oled' # oled THEN {"scd30", "write"} ELSE {"scd30"})
  /\ UNCHANGED <<aqiVars, written, rgb_led, buzVars, pmsVars, batVars,
                 mainVars, dhtVars>>

TasksShowStep ==
  /\ PMSShow(275, 225)
  /\ Accessed("pms", {"pms5003", "write", "set_rgb"})
  /\ UNCHANGED <<aqiVars, avgVars, beepVars, batVars, mainVars, dhtVars,
                 co2Vars, runVars>>

TasksBuzzerStep ==
  /\ BuzzerRun
  /\ Accessed("buzzer", IF buzzer' # buzzer THEN {"buzzer"} ELSE {})
  /\ UNCHANGED <<aqiVars, avgVars, dispVars, rgb_led, beepVars, pmsVars,
                 batVars, mainVars, dhtVars, co2Vars, runVars>>

TasksLedStep ==
  /\ LedRun
  /\ Accessed("led", IF rgb_led' # rgb_led THEN {"set_rgb"} ELSE {})
  /\ UNCHANGED <<aqiVars, avgVars, dispVars, buzVars, pmsVars, batVars,
                 mainVars, dhtVars, co2Vars, runVars>>

NextTasks ==
  \/ TasksHeartbeatStep \/ TasksBatteryStep \/ TasksDhtStep \/ TasksCo2Step
  \/ TasksShowStep \/ TasksBuzzerStep \/ TasksLedStep

SpecTasks == Init /\ [][NextTasks]_vars

(***************************************************************************)
(* Properties of the alert controller (Spec).                              *)
(***************************************************************************)
\* alarm_on after each update of the example
ExampleAlarm == <<FALSE, TRUE, TRUE, FALSE, FALSE>>

\* C1: alarm_on starts false; a step changes it only if it is an update, and
\* then from false to true with a smoke AQI >= 80 or from true to false with
\* a smoke AQI <= 50; an update with a smoke AQI >= 80 leaves it true, one
\* with a smoke AQI <= 50 leaves it false, and one with a smoke AQI strictly
\* between 50 and 80 leaves it as it was.  After the updates 70, 85, 60, 45,
\* 65 it was false, true, true, false, false: it changed at 85 and at 45.
AlarmHysteresis ==
  /\ alarm_on = FALSE
  /\ [][/\ alarm_on' # alarm_on =>
             /\ upd_tick' # upd_tick
             /\ \/ ~alarm_on /\ alarm_on' /\ pms_aqismoke' >= 80
                \/ alarm_on /\ ~alarm_on' /\ pms_aqismoke' <= 50
        /\ upd_tick' # upd_tick =>
             /\ pms_aqismoke' >= 80 => alarm_on'
             /\ pms_aqismoke' <= 50 => ~alarm_on'
             /\ (50 < pms_aqismoke' /\ pms_aqismoke' < 80) =>
                  alarm_on' = alarm_on]_vars
  /\ [](seq_pos # None /\ seq_pos > 0 => alarm_on = ExampleAlarm[seq_pos])

\* the updates 70, 85, 60, 45, 65 have happened, in this order from the start
AlarmHysteresisWitness ==
  seq_pos = Len(ExampleSeq) /\ pms_aqismoke = 65 /\ ~alarm_on

\* C2: an update calls buzzer.alarm() exactly when it switches alarm_on from
\* false to true; it then leaves the buzzer armed with 60 beeps at 700 Hz,
\* 140 ms on, 30 ms pause, and every other update leaves the buzzer object
\* as it was.  No update arms the buzzer again before an update with a smoke
\* AQI <= 50 has followed the last arming.
BeepArming ==
  /\ [][upd_tick' # upd_tick =>
          /\ armed_now' <=> (~alarm_on /\ alarm_on')
          /\ armed_now' <=> (pms_aqismoke' >= 80 /\ ~alarm_on)
          /\ IF armed_now'
             THEN buzzer' = [buzzer EXCEPT !.remaining_beeps = 60, !.freq = 700,
                                           !.duration = 140, !.pause = 30]
             ELSE buzzer' = buzzer]_vars
  /\ [](arm_phase # "rearmed")

\* an update with a smoke AQI >= 80 has come while alarm_on was true and a
\* beep sequence was in progress, and has not armed the buzzer again
BeepArmingWitness ==
  /\ ~armed_now /\ alarm_on /\ pms_aqismoke >= 80
  /\ arm_phase = "armed"
  /\ buzzer.remaining_beeps > 0 /\ buzzer.remaining_beeps < 60

(***************************************************************************)
(* Properties of the Average filter (SpecAvg).                             *)
(***************************************************************************)
RECURSIVE SumRange(_, _, _)
\* s[i] + ... + s[j]
SumRange(s, i, j) == IF i > j THEN 0 ELSE s[i] + SumRange(s, i + 1, j)

\* C3: with window N, after any number of fills the count is in [0, N) and
\* is the number of fills modulo N; fill returned True exactly when the
\* number of fills so far is a multiple of N; after a fill that returned
\* True the sum and the count are zero.
AverageCount ==
  LET N == avg.n_samples
      k == Len(filled)
  IN  /\ avg.n_accumulated \in 0..(N - 1)
      /\ avg.n_accumulated = k % N
      /\ fill_ret <=> (k > 0 /\ k % N = 0)
      /\ fill_ret => avg.sum = 0 /\ avg.n_accumulated = 0

\* a filter of window 3 has completed its second window
AverageCountWitness ==
  avg.n_samples = 3 /\ Len(filled) = 6 /\ fill_ret /\ avg.n_accumulated = 0

\* C4: once a window is complete, average() is the mean of the N values of
\* the last complete window (no earlier and no later value), during the
\* fill that completed it and the N-1 fills that follow; before, it is
\* None.  The running sum holds the values filled since the last complete
\* window only.  With window 3 and the values 1, 2, 3 the average is 2 from
\* the third fill on, and after a 4th value the sum is that value.
AverageResult ==
  LET N == avg.n_samples
      k == Len(filled)
      w == k \div N
  IN  /\ w = 0 => Average_average(avg) = NoAverage
      /\ w > 0 => Average_average(avg) =
                    [num |-> SumRange(filled, (w - 1) * N + 1, w * N), den |-> N]
      /\ avg.sum = SumRange(filled, w * N + 1, k)
      /\ (N = 3 /\ k \in 3..5 /\ SubSeq(filled, 1, 3) = <<1, 2, 3>>) =>
           /\ Average_average(avg).num = 2 * Average_average(avg).den
           /\ k = 3 => fill_ret
           /\ k = 4 => avg.sum = filled[4] /\ avg.n_accumulated = 1

\* window 3, the values 1, 2, 3 and a 4th one
AverageResultWitness ==
  /\ avg.n_samples = 3 /\ filled = <<1, 2, 3, 3>>
  /\ Average_average(avg) = [num |-> 6, den |-> 3] /\ avg.sum = 3

(***************************************************************************)
(* Properties of aqi and aqilevel (SpecAqi).  conc is in 1/10 ug/m3.       *)
(***************************************************************************)
\* C5: aqi(12.0) = 50, aqi(35.4) = 100, aqi(55.4) = 150, aqi(150.4) = 200,
\* aqi(250.4) = 300, aqi(500.4) = 500, and aqi is 999 for every
\* concentration above 500.4.
AqiBreakpoints ==
  /\ conc = 120 => idx = 50
  /\ conc = 354 => idx = 100
  /\ conc = 554 => idx = 150
  /\ conc = 1504 => idx = 200
  /\ conc = 2504 => idx = 300
  /\ conc = 5004 => idx = 500
  /\ conc > 5004 => idx = 999

\* aqi was called with 500.4
AqiBreakpointsWitness == conc = 5004 /\ idx = 500

\* C6: aqilevel of an integer AQI is green up to 50, yellow for 51..100,
\* orange for 101..150, red for 151..200, purple for 201..300 and maroon
\* above; and for a concentration on the 0.1 grid, aqilevel(aqi(c)) is the
\* level of the band of c: green up to 12.0, yellow up to 35.4, orange up to
\* 55.4, red up to 150.4, purple up to 250.4, maroon up to 500.4, and maroon
\* with the AQI 999 above.
AqiLevelBuckets ==
  lvl # "-" =>
    /\ idx <= 50 <=> lvl = "g"
    /\ (51 <= idx /\ idx <= 100) <=> lvl = "y"
    /\ (101 <= idx /\ idx <= 150) <=> lvl = "o"
    /\ (151 <= idx /\ idx <= 200) <=> lvl = "r"
    /\ (201 <= idx /\ idx <= 300) <=> lvl = "p"
    /\ idx >= 301 <=> lvl = "m"
    /\ conc # None =>
         /\ conc <= 120 <=> lvl = "g"
         /\ (121 <= conc /\ conc <= 354) <=> lvl = "y"
         /\ (355 <= conc /\ conc <= 554) <=> lvl = "o"
         /\ (555 <= conc /\ conc <= 1504) <=> lvl = "r"
         /\ (1505 <= conc /\ conc <= 2504) <=> lvl = "p"
         /\ conc >= 2505 <=> lvl = "m"
         /\ conc > 5004 => idx = 999

\* aqilevel(aqi(12.0)): the AQI 50, green
AqiLevelBucketsWitness == conc = 120 /\ idx = 50 /\ lvl = "g"

(***************************************************************************)
(* Properties of the battery percentage (SpecBatPct).                      *)
(***************************************************************************)
\* C7: for every raw count the percentage is in [0, 100] and is the one
\* shown; it is 0 when raw/470 <= 3.0 V, 100 when raw/470 >= 4.05 V, not
\* above the percentage of the next raw count, and within 1 of 50 for the
\* raw counts within one count of the midpoint voltage 3.525 V.
BatteryPercentage ==
  bat_raw # None =>
    /\ vbatrel \in 0..100
    /\ Shown(oled, 5, 7, 4) = FmtInt(vbatrel, 3) \o <<"%">>
    /\ 1000 * bat_raw <= vbat_min * vbat_adccounts_per_V => vbatrel = 0
    /\ 1000 * bat_raw >= vbat_max * vbat_adccounts_per_V => vbatrel = 100
    /\ vbatrel <= VbatRel(bat_raw + 1)
    /\ Abs(2000 * bat_raw - (vbat_min + vbat_max) * vbat_adccounts_per_V) <= 2000
         => Abs(vbatrel - 50) <= 1

\* the raw count next to the midpoint voltage
BatteryPercentageWitness == bat_raw = 1657 /\ vbatrel = 50

(***************************************************************************)
(* Properties of the low battery message (SpecBattery).                    *)
(***************************************************************************)
\* C8: after every battery sample lowbat is true exactly when the percentage
\* is below 20, and from a sample below 20 until the next sample at 20 or
\* more (that is, while lowbat is true) the message field, the 6 cells of
\* row 7 from column 10, shows LOWBAT, whatever the heartbeat does.
LowBatShown ==
  bat_raw # None =>
    /\ lowbat <=> vbatrel < 20
    /\ lowbat => Shown(oled, 10, 7, 6) = LowBatText

\* what holds of the flag alone: after every sample lowbat is true exactly
\* when the percentage is below 20, and the sample itself leaves LOWBAT, or
\* the blank that clears it, in the message field
LowBatFlag ==
  /\ bat_raw # None => (lowbat <=> vbatrel < 20)
  /\ [][bat_raw' # bat_raw \/ vbatrel' # vbatrel \/ lowbat' # lowbat =>
          /\ lowbat' => Shown(oled', 10, 7, 6) = LowBatText
          /\ (lowbat /\ ~lowbat') => Shown(oled', 10, 7, 6) = Spaces(6)]_vars

(***************************************************************************)
(* Properties of the display (SpecDisplay).                                *)
(***************************************************************************)
\* the text of the example of the right alignment
PctText == <<"3", ".", "4", "%">>

\* C9 (as amended): the last write of a row with a negative declared column
\* -e shows its text in the cells ending at the boundary e cells from the
\* left edge of the screen, whatever the length of the text: its last
\* character is in column e-1.  "3.4%" at declared column -6 is shown in
\* columns 2..5: its right edge is 6 cells from the left edge of the
\* 16-column screen, which is the 10th boundary from the right.
RightEdgeAnchored ==
  \A y \in Rows :
    LET w == LastWrite(y)
        e == 0 - w.posX
        n == Len(w.text)
    IN  (w.posX < 0 /\ n > 0) =>
          /\ \A i \in 1..n :
               (e - n + i - 1) \in Cols => Cell(oled, e - n + i - 1, y) = w.text[i]
          /\ (w.text = PctText /\ w.posX = 0 - 6) => Shown(oled, 2, y, 4) = PctText

\* "3.4%" was written at declared column -6 over a longer text
RightEdgeAnchoredWitness ==
  \E y \in Rows :
    /\ LastWrite(y).text = PctText /\ LastWrite(y).posX = 0 - 6
    /\ Shown(oled, 1, y, 5) = <<"1", "3", ".", "4", "%">>

\* C9 (as stated): "3.4%" written at declared column -6 has its right edge
\* at the 6th cell boundary from the right of the 16-column screen, that is
\* it is shown in columns 6..9.
RightEdgeSixthFromRight ==
  \A y \in Rows :
    (LastWrite(y).text = PctText /\ LastWrite(y).posX = 0 - 6) =>
      Shown(oled, NCols - 6 - 4, y, 4) = PctText

\* C10: in a row where one field only was written, every cell is blank or
\* shows the character the most recent text of the field has there.
NoStaleCharacters ==
  \A y \in Rows :
    Cardinality(LastWrite(y).cols) = 1 =>
      LET w == LastWrite(y)
          x == EffCol(w.text, w.posX)
      IN  \A c \in Cols :
            \/ Cell(oled, c, y) = " "
            \/ /\ c >= x /\ c < x + Len(w.text)
               /\ Cell(oled, c, y) = w.text[c - x + 1]

(***************************************************************************)
(* Properties of the beep task (SpecBeep).                                 *)
(***************************************************************************)
\* C11: when the beep task is back in its idle wait with no beep remaining
\* after an update has called buzzer.alarm(), exactly 60 on-phases have
\* begun since that call, wherever the beep task was suspended at the call.
SixtyBeepsAfterTrigger ==
  (trig_at # "none" /\ buz_pc = "idle" /\ buzzer.remaining_beeps = 0) =>
    beeps_begun = 60

\* what holds: 60 on-phases begin after a call that finds the beep task in
\* its idle wait, in a pause or not yet started, and 59 after a call that
\* finds it in an on-phase (the wake-up of line 215 takes one beep off the
\* new count)
BeepsAfterTrigger ==
  (trig_at # "none" /\ buz_pc = "idle" /\ buzzer.remaining_beeps = 0) =>
    beeps_begun = IF trig_at = "on" THEN 59 ELSE 60

\* a step in which an update calls buzzer.alarm()
AlarmTrigger == upd_tick' # upd_tick /\ armed_now'

\* C12: a wake-up of the beep task ends an on-phase in a pause with the
\* counter one lower, starts an on-phase from a pause or an idle wait while
\* the counter is above zero, and idles while the counter is zero; the
\* counter leaves zero only in an update that calls buzzer.alarm().  If from
\* some point on no update calls buzzer.alarm(), then from some point on the
\* counter is zero and the beep task is in its idle wait.
BeepCycle ==
  /\ [][/\ (upd_tick' = upd_tick /\ buz_pc = "on") =>
             /\ buz_pc' = "pause"
             /\ buzzer'.remaining_beeps = buzzer.remaining_beeps - 1
        /\ (upd_tick' = upd_tick /\ buz_pc # "on"
                                 /\ buzzer.remaining_beeps > 0) =>
             /\ buz_pc' = "on"
             /\ buzzer'.remaining_beeps = buzzer.remaining_beeps
        /\ (upd_tick' = upd_tick /\ buz_pc # "on"
                                 /\ buzzer.remaining_beeps = 0) =>
             /\ buz_pc' = "idle"
             /\ buzzer' = buzzer
        /\ (buzzer.remaining_beeps = 0 /\ buzzer'.remaining_beeps # 0) =>
             AlarmTrigger]_vars
  /\ <>[][~AlarmTrigger]_vars =>
       <>[](buzzer.remaining_beeps = 0 /\ buz_pc = "idle" /\ buzzer.duty = 0)

\* a sequence of 60 beeps has run to its end and the beep task idles
BeepCycleWitness ==
  /\ trig_at = "idle" /\ beeps_begun = 60
  /\ buzzer.remaining_beeps = 0 /\ buz_pc = "idle"

\* C13: an update that clears alarm_on leaves the buzzer object (counter,
\* frequency, durations, output), the place where the beep task is suspended
\* and the count of the beeps begun as they were; and a sequence that was
\* armed runs to its end whether or not alarm_on was cleared meanwhile: when
\* the beep task is idle again, all its on-phases have begun.
ClearKeepsSequence ==
  /\ [][(alarm_on /\ ~alarm_on') =>
          /\ upd_tick' # upd_tick /\ pms_aqismoke' <= 50
          /\ UNCHANGED <<buzzer, buz_pc, beeps_begun>>]_vars
  /\ [](arm_phase = "cleared" => BeepsAfterTrigger)

\* an update with a smoke AQI <= 50 has cleared alarm_on while the beep task
\* was in an on-phase in the middle of the sequence
ClearKeepsSequenceWitness ==
  /\ arm_phase = "cleared" /\ ~alarm_on /\ pms_aqismoke <= 50
  /\ buz_pc = "on" /\ buzzer.duty = 512
  /\ buzzer.remaining_beeps = 30 /\ beeps_begun = 31

\* C19: the counter is never negative; the buzzer output is on exactly
\* while the beep task is suspended in the on-phase; in a pause, in the idle
\* wait and before the task has started it is off.
NeverLeftSounding ==
  /\ buzzer.remaining_beeps >= 0
  /\ buzzer.duty \in {0, 512}
  /\ buzzer.duty # 0 <=> buz_pc = "on"
  /\ buz_pc \in {"start", "pause", "idle"} => buzzer.duty = 0

\* buzzer.alarm() was called during an on-phase, and the beep task has gone
\* on to the pause that follows it
NeverLeftSoundingWitness ==
  /\ trig_at = "on" /\ beeps_begun = 0 /\ buz_pc = "pause"
  /\ buzzer.remaining_beeps = 59 /\ buzzer.duty = 0

(***************************************************************************)
(* Properties of the LED and of the particulate state (Spec).              *)
(***************************************************************************)
\* the duties of the three channels for a color
ColorDuty(color) ==
  LET v == rgb_colors[color] IN <<Duty(v[1]), Duty(v[2]), Duty(v[3])>>

\* C14: after every update the color of the LED is the level of the smoke
\* AQI of that update, and the blink flag is set exactly when that level is
\* purple or maroon.  A step of the blink task changes the LED only while
\* the blink flag is set, from lit in the color to off or from off to lit in
\* the color, and changes neither the color nor the blink flag.
LedFollowsLevel ==
  /\ [][upd_tick' # upd_tick =>
          /\ rgb_led'.color = aqilevel(pms_aqismoke')
          /\ rgb_led'.blinking <=> rgb_led'.color \in {"p", "m"}]_vars
  /\ [][(upd_tick' = upd_tick /\ rgb_led' # rgb_led) =>
          /\ rgb_led.blinking /\ rgb_led'.blinking
          /\ rgb_led'.color = rgb_led.color
          /\ rgb_led'.on = ~rgb_led.on
          /\ rgb_led'.duty = IF rgb_led.on THEN <<1023, 1023, 1023>>
                             ELSE ColorDuty(rgb_led.color)]_vars

\* the LED is purple and the blink task has switched it off
LedFollowsLevelWitness ==
  /\ pms_aqilevel = "p" /\ rgb_led.color = "p" /\ rgb_led.blinking
  /\ ~rgb_led.on /\ rgb_led.duty = <<1023, 1023, 1023>>

\* C16: once a first update has happened, in every state (between any two
\* steps of the tasks) the stored level is the level of the stored smoke
\* AQI, the color of the LED is the stored level, and alarm_on is true if
\* the stored smoke AQI is >= 80 and false if it is <= 50.
NeverTorn ==
  pms_aqismoke # None =>
    /\ pms_aqilevel = aqilevel(pms_aqismoke)
    /\ rgb_led.color = pms_aqilevel
    /\ pms_aqismoke >= 80 => alarm_on
    /\ pms_aqismoke <= 50 => ~alarm_on

\* an update with the smoke AQI 50 has cleared alarm_on and the beep task
\* has run since
NeverTornWitness ==
  /\ pms_aqismoke = 50 /\ ~alarm_on /\ arm_phase = "cleared"
  /\ buz_pc = "pause" /\ buzzer.remaining_beeps = 58

\* C20: when the blink flag is clear and the color is not black, the LED is
\* lit in its color; and an update that finds the LED blinking and in its
\* off phase and moves it to a steady color leaves it lit.
SteadyLedLit ==
  /\ (~rgb_led.blinking /\ rgb_led.color # "b") =>
       /\ rgb_led.on
       /\ rgb_led.duty = ColorDuty(rgb_led.color)
       /\ rgb_led.duty # <<1023, 1023, 1023>>
  /\ (dark_before /\ ~rgb_led.blinking) => rgb_led.on

\* the last update found the LED blinking and off, and moved it to red
SteadyLedLitWitness ==
  /\ dark_before /\ rgb_led.color = "r" /\ ~rgb_led.blinking /\ rgb_led.on

(***************************************************************************)
(* Properties of the CO2 task (SpecCo2).                                   *)
(***************************************************************************)
\* the CO2 field: row 5, "CO2 %5.0f ppm"
Co2Field(o) == Shown(o, 0, 5, 13)

\* C15: a step takes a reading only if get_status_ready() has returned 1 in
\* that step, and then goes to the sleep of the interval; a step in which it
\* returned another value takes no reading, changes neither the filter nor
\* the display and leaves the task in the 200 ms wait.  The display changes
\* only in a step that takes a reading whose number is a multiple of 5; the
\* CO2 field is blank before the 5th reading and afterwards shows the mean,
\* rounded, of the last 5 readings that ended on a multiple of 5.
Co2EveryFifth ==
  /\ [][Len(filled') # Len(filled) =>
          /\ scd_status' = 1 /\ co2_pc' = "sleep"
          /\ filled' = Append(filled, co2')]_vars
  /\ [][scd_status' # 1 =>
          /\ co2_pc' \in {"start", "poll"}
          /\ UNCHANGED <<co2, avg, filled, oled>>]_vars
  /\ [][oled' # oled =>
          /\ Len(filled') = Len(filled) + 1
          /\ Len(filled') % 5 = 0]_vars
  /\ [](LET k == Len(filled)
            w == k \div 5
        IN  IF w = 0
            THEN Co2Field(oled) = Spaces(13)
            ELSE Co2Field(oled) =
                   Format("co2", <<Round(SumRange(filled, 5 * w - 4, 5 * w), 5)>>))

\* seven readings, the first five with the mean 560.6, shown as 561, and the
\* task waits for the sensor to be ready for the eighth
Co2EveryFifthWitness ==
  /\ Len(filled) = 7 /\ SumRange(filled, 1, 5) = 2803
  /\ co2_pc = "poll" /\ scd_status = 0
  /\ Co2Field(oled) =
       <<"C", "O", "2", " ", " ", " ", "5", "6", "1", " ", "p", "p", "m">>

(***************************************************************************)
(* Properties of the faults (SpecSensors).                                 *)
(***************************************************************************)
\* C17: a task has raised exactly when the event loop has stopped; from
\* then on no step changes anything (no task runs, none is restarted, the
\* display stays as it is); and the step in which the task raised has left
\* the display as the last completed write left it.
FailFast ==
  /\ [](fault # "none" <=> ~running)
  /\ [][fault # "none" => UNCHANGED vars]_vars
  /\ [][fault' # fault => fault = "none" /\ oled' = oled]_vars

\* the DHT sensor has read a humidity of 0 (math.log has raised) after a
\* good measurement, while the CO2 task was waiting for its sensor
FailFastWitness ==
  /\ fault = "dht" /\ ~running
  /\ dht_humidity = 0 /\ n_measurements = 1
  /\ co2_pc = "poll" /\ Len(filled) = 4

(***************************************************************************)
(* Properties of the accesses to the peripherals (SpecTasks).              *)
(***************************************************************************)
\* C18 (as stated): no peripheral is driven by two tasks.
ExclusivePeripherals == \A p \in Peripherals : Cardinality(Users(p)) <= 1

\* C18 (as amended): the display and its I2C bus are driven by the heartbeat
\* loop, the battery monitor, the DHT task, the CO2 task and the particulate
\* callback, and the CO2 task polls its sensor on that bus; the LED outputs
\* are driven by the particulate callback and by the blink task; the DHT
\* pin, the UART, the ADC and the buzzer output are driven by one task each,
\* and no task drives anything else.
SharedDisplay ==
  /\ Users("display") \subseteq {"main", "battery", "dht", "co2", "pms"}
  /\ Users("i2c") \subseteq {"main", "battery", "dht", "co2", "pms"}
  /\ Users("led") \subseteq {"pms", "led"}
  /\ Users("dht") \subseteq {"dht"}
  /\ Users("uart") \subseteq {"pms"}
  /\ Users("adc") \subseteq {"battery"}
  /\ Users("buzzer") \subseteq {"buzzer"}
  /\ \A a \in access : a[2] \in Peripherals
  /\ scd_status # None => "co2" \in Users("i2c")
  /\ "co2" \in Users("display") => Len(filled) >= co2_n_samples

\* every task has run: five tasks have written the display, the CO2 task
\* after its fifth reading
SharedDisplayWitness ==
  /\ Users("display") = {"main", "battery", "dht", "co2", "pms"}
  /\ Users("i2c") = {"main", "battery", "dht", "co2", "pms"}
  /\ Users("buzzer") = {"buzzer"} /\ Users("adc") = {"battery"}
  /\ Len(filled) = 5

====
